---------------------------- MODULE Spec2Model ----------------------------
(***************************************************************************)
(* A model of packages/core-data/src/entity-provider.js: the registry of   *)
(* per-(kind, type) contexts, EntityProvider / useEntityId, useEntityProp  *)
(* and useEntityBlockEditor, together with the collaborators the hooks     *)
(* talk to (the 'core' record store, parse and serialize).                 *)
(***************************************************************************)
EXTENDS Naturals, Sequences, FiniteSets, TLC

VARIABLES
    entities,   \* the module-level registry: kind -> (type -> context)
    tree,       \* the providers enclosing the consumers, outermost first
    store,      \* the 'core' store: key -> persisted and edited record
    requests,   \* every editEntityRecord call the store received, in order
    hook,       \* the state of one mounted useEntityBlockEditor instance
    field,      \* the closure of the last useEntityProp render of a consumer
    out         \* what the last operation returned, threw and called

vars == <<entities, tree, store, requests, hook, field, out>>

-----------------------------------------------------------------------------
(* Bounds of the model.                                                    *)

\* the deepest nesting of providers around the consumers
MaxDepth == 2
\* the longest run of editEntityRecord calls that is followed
MaxRequests == 3

-----------------------------------------------------------------------------
(* JavaScript values.  Every value is a record [t, v]: t is the result of  *)
(* typeof (with "null" and "array" told apart), v the payload, always a    *)
(* sequence of strings.                                                    *)

Undefined == [t |-> "undefined", v |-> <<>>]
Null == [t |-> "null", v |-> <<>>]
Str(s) == [t |-> "string", v |-> s]
Arr(a) == [t |-> "array", v |-> a]
\* the closure of line 187: ( { blocks } ) => serialize( blocks )
SerializeBlocksFn == [t |-> "function", v |-> <<>>]

\* JavaScript truthiness of a value: undefined, null and '' are falsy
Truthy(x) ==
    /\ x.t \notin {"undefined", "null"}
    /\ ~(x.t = "string" /\ x.v = <<>>)

\* a ?? b
Coalesce(a, b) == IF a \in {"undefined", "null"} THEN b ELSE a

\* the ids of records; "undefined" and "null" are the two nullish ids
Ids == {"i1", "i2"}

-----------------------------------------------------------------------------
(* The registry (lines 19-42).                                             *)

\* import { defaultEntities, kinds } from './entities'
defaultEntities == << [kind |-> "root", name |-> "site"] >>
kinds == << [name |-> "postType"] >>

\* acc[ entity.kind ][ entity.name ] = { context: createContext() }: the
\* i-th default entity gets the i-th context
DefaultsReduce ==
    [k \in {defaultEntities[i].kind : i \in DOMAIN defaultEntities} |->
        [n \in {defaultEntities[i].name :
                    i \in {j \in DOMAIN defaultEntities : defaultEntities[j].kind = k}} |->
            CHOOSE i \in DOMAIN defaultEntities :
                defaultEntities[i].kind = k /\ defaultEntities[i].name = n]]

\* acc[ kind.name ] = {}
KindsReduce ==
    [k \in {kinds[i].name : i \in DOMAIN kinds} |-> [n \in {} |-> 0]]

\* { ...defaults, ...kinds }: a later spread overrides an earlier key
InitialEntities ==
    [k \in DOMAIN DefaultsReduce \cup DOMAIN KindsReduce |->
        IF k \in DOMAIN KindsReduce THEN KindsReduce[k] ELSE DefaultsReduce[k]]

\* the number of contexts createContext() has handed out in a registry
ContextCount(ents) ==
    Cardinality(UNION {{ents[k][n] : n \in DOMAIN ents[k]} : k \in DOMAIN ents})

\* a getEntity that also rejects a type the kind does not hold yet
GetEntityThrowsOnNewType(ents, kind, type) ==
    kind \notin DOMAIN ents \/ type \notin DOMAIN ents[kind]

\* getEntity: if ( ! entities[ kind ] ) throw new Error( ... )
GetEntityThrows(ents, kind, type) == kind \notin DOMAIN ents

\* a getEntity that creates the entry on every call, hit or miss
GetEntityRegistryRecreating(ents, kind, type) ==
    IF kind \notin DOMAIN ents THEN ents
    ELSE [ents EXCEPT ![kind] =
            [n \in DOMAIN ents[kind] \cup {type} |->
                IF n # type THEN ents[kind][n]
                ELSE IF type \in DOMAIN ents[kind]
                     THEN ContextCount(ents) + 1 + ents[kind][type]
                     ELSE ContextCount(ents) + 1]]

\* getEntity: if ( ! entities[ kind ][ type ] ) entities[ kind ][ type ] = ...
GetEntityRegistry(ents, kind, type) ==
    IF GetEntityThrows(ents, kind, type) THEN ents
    ELSE IF type \in DOMAIN ents[kind] THEN ents
    ELSE [ents EXCEPT ![kind] =
            [n \in DOMAIN ents[kind] \cup {type} |->
                IF n = type THEN ContextCount(ents) + 1 ELSE ents[kind][n]]]

\* getEntity( kind, type ).context, once the entry exists
GetEntityContext(ents, kind, type) == GetEntityRegistry(ents, kind, type)[kind][type]

-----------------------------------------------------------------------------
(* Providers and useContext (lines 57-71).                                 *)

\* useContext( context ): the value of the innermost provider of that
\* context, and createContext()'s default, undefined, without one
UseContext(tr, context) ==
    LET at == {i \in DOMAIN tr : tr[i].context = context}
    IN  IF at = {} THEN "undefined"
        ELSE tr[CHOOSE i \in at : \A j \in at : j <= i].value

\* useEntityId( kind, type )
UseEntityId(ents, tr, kind, type) == UseContext(tr, GetEntityContext(ents, kind, type))

-----------------------------------------------------------------------------
(* parse and serialize of '@wordpress/blocks' (line 12).  A text is a      *)
(* sequence of tokens: the markup of one block ("<p>", "<h>") or the       *)
(* white space between blocks (" "); a document is a sequence of nodes.    *)

Nodes == {"p", "h"}
Markup(node) == IF node = "p" THEN "<p>" ELSE "<h>"
NodeOf(token) == IF token = "<p>" THEN "p" ELSE "h"
IsMarkup(token) == token \in {"<p>", "<h>"}

\* parse( text ): one node per block, the white space between blocks dropped
RECURSIVE Parse(_)
Parse(text) ==
    IF text = <<>> THEN <<>>
    ELSE IF IsMarkup(Head(text)) THEN <<NodeOf(Head(text))>> \o Parse(Tail(text))
    ELSE Parse(Tail(text))

\* serialize( blocks ): the blocks' markup, joined by white space
RECURSIVE Serialize(_)
Serialize(blocks) ==
    IF blocks = <<>> THEN <<>>
    ELSE IF Tail(blocks) = <<>> THEN <<Markup(Head(blocks))>>
    ELSE <<Markup(Head(blocks)), " ">> \o Serialize(Tail(blocks))

-----------------------------------------------------------------------------
(* The 'core' store (lines 11, 93-95, 105, 108): getEntityRecord,          *)
(* getEditedEntityRecord and editEntityRecord.                             *)

Fields == {"title", "content", "blocks", "body"}
NoFields == [f \in Fields |-> Undefined]

\* the (kind, type, id) a record is kept under
Key(kind, type, id) == <<kind, type, id>>
\* the records of the store: those of the (kind, type) pairs the consumers name
RecordPairs == {<<"root", "site">>, <<"postType", "post">>, <<"postType", "page">>}
Keys == {<<p[1], p[2], id>> : p \in RecordPairs, id \in Ids \cup {"undefined"}}

\* a record nobody has fetched or edited
NoRecord ==
    [hasPersisted |-> FALSE, persisted |-> NoFields,
     hasEdited |-> FALSE, edited |-> NoFields]

\* select( 'core' ).getEntityRecord( kind, type, id ) starts the resolver of
\* a record that has an id and is not there yet: the keys whose fetch it asks for
TriggerResolver(st, key) ==
    IF key[3] \in Ids /\ ~st[key].hasPersisted THEN {key} ELSE {}

\* an editEntityRecord( kind, type, id, edits, options ) call
Request(kind, type, id, edits, options) ==
    [kind |-> kind, type |-> type, id |-> id, edits |-> edits, options |-> options]

\* the store's handling of one editEntityRecord call: the edits are merged
\* into the edited record
CommitEdit(st, r) ==
    LET key == Key(r.kind, r.type, r.id)
    IN  [st EXCEPT ![key].hasEdited = TRUE,
                   ![key].edited =
                        [f \in Fields |->
                            IF f \in DOMAIN r.edits THEN r.edits[f] ELSE st[key].edited[f]]]

\* the store's handling of a run of calls, in the order it receives them
RECURSIVE CommitEdits(_, _)
CommitEdits(st, rs) ==
    IF rs = <<>> THEN st ELSE CommitEdits(CommitEdit(st, Head(rs)), Tail(rs))

\* the record a resolver ends with: the fetched record, under the edits made
\* while it was loading
Resolved(e, rec) ==
    [hasPersisted |-> TRUE, persisted |-> rec,
     hasEdited |-> TRUE,
     edited |-> [f \in Fields |->
                    IF e.hasEdited /\ e.edited[f] # Undefined THEN e.edited[f] ELSE rec[f]]]

\* the records a resolver can fetch
FetchedRecords ==
    { [f \in Fields |->
         IF f = "title" THEN Str(<<"A">>) ELSE IF f = "content" THEN Str(c) ELSE Undefined]
      : c \in {<<"<p>">>} }

-----------------------------------------------------------------------------
(* useEntityProp (lines 87-116).                                           *)

\* a selector that hands out the two records' values the wrong way round
SelectPropSwapped(st, kind, type, id, prop) ==
    LET e == st[Key(kind, type, id)]
    IN  IF e.hasPersisted /\ e.hasEdited
        THEN [value |-> e.persisted[prop], fullValue |-> e.edited[prop]]
        ELSE [value |-> Undefined, fullValue |-> Undefined]

\* lines 96-101: entity && editedEntity ? { value, fullValue } : {}
SelectProp(st, kind, type, id, prop) ==
    LET e == st[Key(kind, type, id)]
    IN  IF e.hasPersisted /\ e.hasEdited
        THEN [value |-> e.edited[prop], fullValue |-> e.persisted[prop]]
        ELSE [value |-> Undefined, fullValue |-> Undefined]

\* the two operands the wrong way round: providerId ?? _id
EffectiveIdProviderFirst(_id, providerId) == Coalesce(providerId, _id)

\* line 89: const id = _id ?? providerId
EffectiveId(_id, providerId) == Coalesce(_id, providerId)

\* a setter that edits only a record that has loaded
SetValueRequestsIfLoaded(kind, type, id, prop, newValue) ==
    IF store[Key(kind, type, id)].hasPersisted
    THEN << Request(kind, type, id, [f \in {prop} |-> newValue], "none") >>
    ELSE <<>>

\* a setter that drops a call equal to the call before it
SetValueRequestsDeduplicated(kind, type, id, prop, newValue) ==
    LET r == Request(kind, type, id, [f \in {prop} |-> newValue], "none")
    IN  IF requests # <<>> /\ requests[Len(requests)] = r THEN <<>> ELSE <<r>>

\* lines 107-111: editEntityRecord( kind, type, id, { [ prop ]: newValue } )
SetValueRequests(kind, type, id, prop, newValue) ==
    << Request(kind, type, id, [f \in {prop} |-> newValue], "none") >>

-----------------------------------------------------------------------------
(* The initial state: the module is loaded, nothing is rendered.           *)

\* what an operation leaves in out
Out(op, kind, type, override) ==
    [op |-> op, kind |-> kind, type |-> type, override |-> override, threw |-> FALSE,
     id |-> "undefined", value |-> Undefined, fullValue |-> Undefined,
     parsed |-> <<>>, fetch |-> {}, initialEdits |-> FALSE]

\* getEntity threw: Error( `Missing entity config for kind: ${ kind }.` )
Threw(op, kind, type, override) == [Out(op, kind, type, override) EXCEPT !.threw = TRUE]

NoHook ==
    [mounted |-> FALSE, kind |-> "", type |-> "", id |-> "undefined",
     blocksProp |-> "blocks", contentProp |-> "content",
     memoDeps |-> Undefined, memoValue |-> Arr(<<>>), effectDeps |-> "undefined"]

NoField == [live |-> FALSE, kind |-> "", type |-> "", id |-> "undefined", prop |-> ""]

Init ==
    /\ entities = InitialEntities
    /\ tree = <<>>
    /\ store = [k \in Keys |-> NoRecord]
    /\ requests = <<>>
    /\ hook = NoHook
    /\ field = NoField
    /\ out = Out("load", "", "", "undefined")

-----------------------------------------------------------------------------
(* Providers (lines 57-60) and useEntityId (lines 69-71).                  *)

\* <EntityProvider kind type id> is rendered inside the innermost provider
EntityProvider(kind, type, id) ==
    /\ Len(tree) < MaxDepth
    /\ IF GetEntityThrows(entities, kind, type)
       THEN /\ out' = Threw("EntityProvider", kind, type, "undefined")
            /\ UNCHANGED <<entities, tree>>
       ELSE /\ entities' = GetEntityRegistry(entities, kind, type)
            /\ tree' = Append(tree, [kind |-> kind, type |-> type,
                                     context |-> GetEntityContext(entities, kind, type),
                                     value |-> id])
            /\ out' = Out("EntityProvider", kind, type, "undefined")
    /\ UNCHANGED <<store, requests, hook, field>>

\* the i-th provider is rendered again with another id
ProviderUpdate(i, id) ==
    /\ i \in DOMAIN tree
    /\ tree[i].value # id
    /\ tree' = [tree EXCEPT ![i].value = id]
    /\ out' = Out("EntityProvider", tree[i].kind, tree[i].type, "undefined")
    /\ UNCHANGED <<entities, store, requests, hook, field>>

\* the innermost provider is unmounted
ProviderUnmount ==
    /\ tree # <<>>
    /\ tree' = SubSeq(tree, 1, Len(tree) - 1)
    /\ out' = Out("unmount", "", "", "undefined")
    /\ UNCHANGED <<entities, store, requests, hook, field>>

\* a consumer inside the innermost provider calls useEntityId( kind, type )
UseEntityIdCall(kind, type) ==
    /\ IF GetEntityThrows(entities, kind, type)
       THEN /\ out' = Threw("useEntityId", kind, type, "undefined")
            /\ UNCHANGED entities
       ELSE /\ entities' = GetEntityRegistry(entities, kind, type)
            /\ out' = [Out("useEntityId", kind, type, "undefined") EXCEPT
                          !.id = UseEntityId(entities, tree, kind, type)]
    /\ UNCHANGED <<tree, store, requests, hook, field>>

-----------------------------------------------------------------------------
(* useEntityProp (lines 87-116) in a consumer inside the innermost         *)
(* provider, and the setter it returned.                                   *)

UseEntityPropCall(kind, type, prop, _id) ==
    /\ IF GetEntityThrows(entities, kind, type)
       THEN /\ out' = Threw("useEntityProp", kind, type, _id)
            /\ UNCHANGED <<entities, field>>
       ELSE LET id == EffectiveId(_id, UseEntityId(entities, tree, kind, type))
                sel == SelectProp(store, kind, type, id, prop)
            IN  /\ entities' = GetEntityRegistry(entities, kind, type)
                /\ field' = [live |-> TRUE, kind |-> kind, type |-> type,
                             id |-> id, prop |-> prop]
                /\ out' = [Out("useEntityProp", kind, type, _id) EXCEPT
                              !.id = id, !.value = sel.value, !.fullValue = sel.fullValue,
                              !.fetch = TriggerResolver(store, Key(kind, type, id))]
    /\ UNCHANGED <<tree, store, requests, hook>>

\* setValue( newValue ), the setter of the consumer's last render
SetValue(newValue) ==
    /\ field.live
    /\ LET rs == SetValueRequests(field.kind, field.type, field.id, field.prop, newValue)
       IN  /\ Len(requests) + Len(rs) <= MaxRequests
           /\ requests' = requests \o rs
           /\ store' = CommitEdits(store, rs)
    /\ out' = [Out("setValue", field.kind, field.type, "undefined") EXCEPT
                  !.id = field.id, !.value = newValue]
    /\ UNCHANGED <<entities, tree, hook, field>>

-----------------------------------------------------------------------------
(* useEntityBlockEditor (lines 139-194) in a consumer inside the innermost *)
(* provider, and the two handlers it returned.                             *)

\* the initialEdits option: absent, or an edits object
NoInitialEdits == [given |-> FALSE, edits |-> [f \in {} |-> Undefined]]
DraftEdits ==
    [given |-> TRUE,
     edits |-> [f \in {"title", "content"} |->
                    IF f = "title" THEN Str(<<"Draft">>) ELSE Str(<<" ">>)]]

\* an effect without its dependency list: it runs after every render
InitialEditsRequestsEveryRender(mounted, effectDeps, kind, type, id, initialEdits) ==
    IF initialEdits.given
    THEN << Request(kind, type, id, initialEdits.edits, "undoIgnore") >>
    ELSE <<>>

\* an effect that keeps addressing the id of its first run
InitialEditsRequestsStaleId(mounted, effectDeps, kind, type, id, initialEdits) ==
    IF (~mounted \/ effectDeps # id) /\ initialEdits.given
    THEN << Request(kind, type, IF mounted THEN effectDeps ELSE id,
                    initialEdits.edits, "undoIgnore") >>
    ELSE <<>>

\* an effect whose dependency test is inverted: after the first render it
\* runs when the id is the one of its last run
InitialEditsRequestsOnSameId(mounted, effectDeps, kind, type, id, initialEdits) ==
    IF (~mounted \/ effectDeps = id) /\ initialEdits.given
    THEN << Request(kind, type, id, initialEdits.edits, "undoIgnore") >>
    ELSE <<>>

\* an effect without the test of initialEdits: it sends whatever it is given
InitialEditsRequestsUnguarded(mounted, effectDeps, kind, type, id, initialEdits) ==
    IF ~mounted \/ effectDeps # id
    THEN << Request(kind, type, id, initialEdits.edits, "undoIgnore") >>
    ELSE <<>>

\* lines 160-166: the effect runs after the first render and after a render
\* whose id differs from the one of the effect's last run
InitialEditsRequests(mounted, effectDeps, kind, type, id, initialEdits) ==
    IF (~mounted \/ effectDeps # id) /\ initialEdits.given
    THEN << Request(kind, type, id, initialEdits.edits, "undoIgnore") >>
    ELSE <<>>

\* a memo body without the guard against a function: it parses what is truthy
InitialBlocksUnguarded(content) ==
    IF Truthy(content)
    THEN [value |-> Arr(Parse(content.v)), parsed |-> <<content>>]
    ELSE [value |-> Arr(<<>>), parsed |-> <<>>]

\* lines 168-174: the body of the memo; parsed lists the parse() calls
InitialBlocks(content) ==
    IF Truthy(content) /\ content.t # "function"
    THEN [value |-> Arr(Parse(content.v)), parsed |-> <<content>>]
    ELSE [value |-> Arr(<<>>), parsed |-> <<>>]

\* a memo with an empty dependency list: computed on the first render only
UseMemoInitialBlocksOnce(mounted, memoDeps, memoValue, content) ==
    IF mounted
    THEN [value |-> memoValue, parsed |-> <<>>]
    ELSE InitialBlocks(content)

\* a memo without its dependency list: computed on every render
UseMemoInitialBlocksEveryRender(mounted, memoDeps, memoValue, content) ==
    InitialBlocks(content)

\* lines 167-175: useMemo( ..., [ content ] ) computes on the first render and
\* when content differs from the content of the last computation
UseMemoInitialBlocks(mounted, memoDeps, memoValue, content) ==
    IF mounted /\ memoDeps = content
    THEN [value |-> memoValue, parsed |-> <<>>]
    ELSE InitialBlocks(content)

\* line 176: const [ blocks = initialBlocks, onInput ] = ...: the default
\* stands in for undefined only
BlocksOrInitial(blocks, initialBlocks) ==
    IF blocks = Undefined THEN initialBlocks ELSE blocks

\* a handler that calls setContent( function ) before onInput( nextBlocks )
OnChangeRequestsContentFirst(kind, type, id, blocksProp, contentProp, nextBlocks) ==
    SetValueRequests(kind, type, id, contentProp, SerializeBlocksFn)
        \o SetValueRequests(kind, type, id, blocksProp, nextBlocks)

\* lines 184-190: onInput( nextBlocks ), then setContent( function )
OnChangeRequests(kind, type, id, blocksProp, contentProp, nextBlocks) ==
    SetValueRequests(kind, type, id, blocksProp, nextBlocks)
        \o SetValueRequests(kind, type, id, contentProp, SerializeBlocksFn)

\* lines 187-189: ( { blocks: blocksToSerialize } ) => serialize( blocksToSerialize ),
\* called with an edited record; serialize throws on what is no block list
SerializeBlocksFnApply(rec) ==
    IF rec["blocks"].t = "array"
    THEN [threw |-> FALSE, value |-> Str(Serialize(rec["blocks"].v))]
    ELSE [threw |-> TRUE, value |-> Undefined]

\* one render of the hook, and the effect that follows it
UseEntityBlockEditorCall(kind, type, initialEdits, blocksProp, contentProp, _id) ==
    /\ IF GetEntityThrows(entities, kind, type)
       THEN /\ out' = Threw("useEntityBlockEditor", kind, type, _id)
            /\ UNCHANGED <<entities, store, requests, hook>>
       ELSE LET id == EffectiveId(_id, UseEntityId(entities, tree, kind, type))
                propId == EffectiveId(id, UseEntityId(entities, tree, kind, type))
                content == SelectProp(store, kind, type, propId, contentProp).value
                memo == UseMemoInitialBlocks(hook.mounted, hook.memoDeps,
                                             hook.memoValue, content)
                blocks == SelectProp(store, kind, type, propId, blocksProp).value
                rs == InitialEditsRequests(hook.mounted, hook.effectDeps,
                                           kind, type, id, initialEdits)
            IN  /\ Len(requests) + Len(rs) <= MaxRequests
                /\ entities' = GetEntityRegistry(entities, kind, type)
                /\ hook' = [mounted |-> TRUE, kind |-> kind, type |-> type, id |-> propId,
                            blocksProp |-> blocksProp, contentProp |-> contentProp,
                            memoDeps |-> content, memoValue |-> memo.value,
                            effectDeps |-> id]
                /\ requests' = requests \o rs
                /\ store' = CommitEdits(store, rs)
                /\ out' = [Out("useEntityBlockEditor", kind, type, _id) EXCEPT
                              !.id = id, !.value = BlocksOrInitial(blocks, memo.value),
                              !.parsed = memo.parsed,
                              !.initialEdits = initialEdits.given,
                              !.fetch = TriggerResolver(store, Key(kind, type, propId))]
    /\ UNCHANGED <<tree, field>>

\* an onInput that is wired to the body of onChange
OnInputCommitting(nextBlocks) ==
    /\ hook.mounted
    /\ LET rs == SetValueRequests(hook.kind, hook.type, hook.id, hook.blocksProp,
                                  nextBlocks)
                    \o SetValueRequests(hook.kind, hook.type, hook.id, hook.contentProp,
                                        SerializeBlocksFn)
       IN  /\ Len(requests) + Len(rs) <= MaxRequests
           /\ requests' = requests \o rs
           /\ store' = CommitEdits(store, rs)
    /\ out' = [Out("onInput", hook.kind, hook.type, "undefined") EXCEPT
                  !.id = hook.id, !.value = nextBlocks]
    /\ UNCHANGED <<entities, tree, hook, field>>

\* onInput( nextBlocks ), the handler of the hook's last render
OnInput(nextBlocks) ==
    /\ hook.mounted
    /\ LET rs == SetValueRequests(hook.kind, hook.type, hook.id, hook.blocksProp,
                                  nextBlocks)
       IN  /\ Len(requests) + Len(rs) <= MaxRequests
           /\ requests' = requests \o rs
           /\ store' = CommitEdits(store, rs)
    /\ out' = [Out("onInput", hook.kind, hook.type, "undefined") EXCEPT
                  !.id = hook.id, !.value = nextBlocks]
    /\ UNCHANGED <<entities, tree, hook, field>>

\* onChange( nextBlocks ), the handler of the hook's last render
OnChange(nextBlocks) ==
    /\ hook.mounted
    /\ LET rs == OnChangeRequests(hook.kind, hook.type, hook.id, hook.blocksProp,
                                  hook.contentProp, nextBlocks)
       IN  /\ Len(requests) + Len(rs) <= MaxRequests
           /\ requests' = requests \o rs
           /\ store' = CommitEdits(store, rs)
    /\ out' = [Out("onChange", hook.kind, hook.type, "undefined") EXCEPT
                  !.id = hook.id, !.value = nextBlocks]
    /\ UNCHANGED <<entities, tree, hook, field>>

-----------------------------------------------------------------------------
(* The store's own steps.                                                  *)

\* the resolver of a record that was asked for finishes
StoreResolve(key, rec) ==
    /\ key[3] \in Ids
    /\ ~store[key].hasPersisted
    /\ store' = [store EXCEPT ![key] = Resolved(store[key], rec)]
    /\ out' = Out("resolve", key[1], key[2], "undefined")
    /\ UNCHANGED <<entities, tree, requests, hook, field>>

\* the store evaluates the function-shaped edit of a field on the edited
\* record it then holds, and keeps the result as the field's edit
StoreApplyFunction(key, f) ==
    /\ store[key].hasEdited
    /\ store[key].edited[f].t = "function"
    /\ ~SerializeBlocksFnApply(store[key].edited).threw
    /\ store' = [store EXCEPT
                    ![key].edited[f] = SerializeBlocksFnApply(store[key].edited).value]
    /\ out' = Out("apply", key[1], key[2], "undefined")
    /\ UNCHANGED <<entities, tree, requests, hook, field>>

-----------------------------------------------------------------------------
(* The specifications.                                                     *)

ProviderIds == Ids
Overrides == Ids \cup {"undefined", "null"}

\* the values a consumer sets a field to
ValuesOf(prop) ==
    IF prop = "title" THEN {Str(<<"C">>)}
    ELSE IF prop = "content" THEN {Str(<<"<h>">>)}
    ELSE {Arr(<<"p">>), Null}

\* the (kind, type) pairs the providers and the consumers name: a default
\* entity, two types of a kind that loads its entities, an unknown kind
ProviderPairs == {<<"postType", "post">>, <<"postType", "page">>, <<"bogus", "post">>}
ConsumerPairs == RecordPairs \cup {<<"bogus", "post">>}

\* the record the editing consumers work on, and an unknown kind
EditPairs == {<<"postType", "post">>, <<"bogus", "post">>}
EditOverrides == {"undefined", "i2"}

\* providers and consumers of every kind and type
NextScope ==
    \/ \E p \in ProviderPairs, id \in ProviderIds : EntityProvider(p[1], p[2], id)
    \/ \E i \in 1..MaxDepth, id \in ProviderIds : ProviderUpdate(i, id)
    \/ ProviderUnmount
    \/ \E p \in ConsumerPairs : UseEntityIdCall(p[1], p[2])
    \/ \E p \in EditPairs, _id \in Overrides :
            UseEntityPropCall(p[1], p[2], "title", _id)
    \/ \E p \in EditPairs, _id \in EditOverrides :
            UseEntityBlockEditorCall(p[1], p[2], NoInitialEdits, "blocks", "content", _id)

SpecScope == Init /\ [][NextScope]_vars

BlocksProps == {"blocks", "body"}
ContentProps == {"content"}
EditKeys == {k \in Keys : <<k[1], k[2]>> \in EditPairs}

\* one record type, read and edited through useEntityProp
NextField ==
    \/ \E id \in ProviderIds : tree = <<>> /\ EntityProvider("postType", "post", id)
    \/ ProviderUnmount
    \/ \E p \in EditPairs, _id \in EditOverrides :
            UseEntityPropCall(p[1], p[2], "title", _id)
    \/ \E v \in ValuesOf("title") : SetValue(v)
    \/ \E key \in EditKeys, rec \in FetchedRecords : StoreResolve(key, rec)

SpecField == Init /\ [][NextField]_vars

\* one record type, edited through useEntityBlockEditor
Next ==
    \/ \E p \in EditPairs, ie \in {NoInitialEdits, DraftEdits}, bp \in BlocksProps,
          cp \in ContentProps, _id \in Ids :
            /\ hook.mounted => bp = hook.blocksProp
            /\ UseEntityBlockEditorCall(p[1], p[2], ie, bp, cp, _id)
    \/ \E v \in {Arr(<<"p">>), Null} : OnInput(v)
    \/ \E v \in {Arr(<<"h", "p">>)} : OnChange(v)
    \/ \E key \in EditKeys, rec \in FetchedRecords : StoreResolve(key, rec)
    \/ \E key \in EditKeys, f \in Fields : StoreApplyFunction(key, f)

Spec == Init /\ [][Next]_vars

\* the setters of two fields and the two handlers of the hook, on one record
NextOrder ==
    \/ \E prop \in {"title", "content"}, _id \in EditOverrides :
            UseEntityPropCall("postType", "post", prop, _id)
    \/ \E v \in ValuesOf(field.prop) : SetValue(v)
    \/ \E bp \in BlocksProps :
            /\ hook.mounted => bp = hook.blocksProp
            /\ UseEntityBlockEditorCall("postType", "post", NoInitialEdits, bp, "content", "i2")
    \/ \E v \in {Arr(<<"p">>)} : OnInput(v)
    \/ \E v \in {Arr(<<"h", "p">>)} : OnChange(v)

SpecOrder == Init /\ [][NextOrder]_vars

\* the serialized values another consumer leaves in the content field: none,
\* the empty text, white space, a block, a function edit not yet applied
ContentValues ==
    {Undefined, Str(<<>>), Str(<<" ">>), Str(<<"<h>">>), SerializeBlocksFn}

\* one record whose content another consumer sets, read by the hook
NextContent ==
    \/ UseEntityPropCall("postType", "post", "content", "i1")
    \/ \E v \in ContentValues : SetValue(v)
    \/ UseEntityBlockEditorCall("postType", "post", NoInitialEdits, "blocks", "content", "i1")
    \/ \E rec \in FetchedRecords : StoreResolve(<<"postType", "post", "i1">>, rec)

SpecContent == Init /\ [][NextContent]_vars

-----------------------------------------------------------------------------
(* Properties.                                                             *)

\* the operations that name a (kind, type) pair and go through getEntity
EntityOps == {"EntityProvider", "useEntityId", "useEntityProp", "useEntityBlockEditor"}

\* C1: useEntityProp returns the edited record's value of the field first and
\* the persisted record's value third when the store holds both records of
\* the effective id, and undefined for both when it lacks either.
C1_EditedAndPersistedValue ==
    (out.op = "useEntityProp" /\ ~out.threw) =>
        LET e == store[Key(field.kind, field.type, field.id)]
        IN  IF e.hasPersisted /\ e.hasEdited
            THEN out.value = e.edited[field.prop] /\ out.fullValue = e.persisted[field.prop]
            ELSE out.value = Undefined /\ out.fullValue = Undefined

\* a render that returned an edited value next to a different persisted one
C1_Witness ==
    /\ out.op = "useEntityProp"
    /\ out.value = Str(<<"C">>)
    /\ out.fullValue = Str(<<"A">>)

\* C2: every call of the setter that useEntityProp returned sends the store
\* exactly one editEntityRecord call, for the render's (kind, type, effective
\* id), with the one entry { prop: newValue }, loaded record or not.
C2_OneEditPerSetterCall ==
    [][out'.op = "setValue" =>
          requests' = Append(requests,
                             Request(field.kind, field.type, field.id,
                                     [f \in {field.prop} |-> out'.value], "none"))]_vars

\* two equal setter calls in a row, both sent, on a record that never loaded
C2_Witness ==
    /\ out.op = "setValue"
    /\ ~store[Key(field.kind, field.type, field.id)].hasPersisted
    /\ Len(requests) >= 2
    /\ requests[Len(requests)] = requests[Len(requests) - 1]

\* the id of the innermost provider of (kind, type) among the first n
RECURSIVE NearestProviderId(_, _, _, _)
NearestProviderId(tr, n, kind, type) ==
    IF n = 0 THEN "undefined"
    ELSE IF tr[n].kind = kind /\ tr[n].type = type THEN tr[n].value
    ELSE NearestProviderId(tr, n - 1, kind, type)

\* C3: the id a consumer works with is the override when one is given (not
\* null, not undefined), else the id of the innermost enclosing provider of the
\* same (kind, type), and undefined without such a provider.
C3_EffectiveId ==
    (out.op \in {"useEntityId", "useEntityProp", "useEntityBlockEditor"} /\ ~out.threw) =>
        /\ out.id = IF out.override \notin {"undefined", "null"} THEN out.override
                    ELSE NearestProviderId(tree, Len(tree), out.kind, out.type)
        /\ out.op = "useEntityProp" => field.id = out.id
        /\ out.op = "useEntityBlockEditor" => hook.id = out.id

\* the hook inside two providers of its pair with different ids, no override
C3_Witness ==
    /\ out.op = "useEntityBlockEditor"
    /\ ~out.threw
    /\ out.override = "undefined"
    /\ Len(tree) = 2
    /\ tree[1].kind = out.kind /\ tree[1].type = out.type
    /\ tree[2].kind = out.kind /\ tree[2].type = out.type
    /\ tree[1].value # tree[2].value
    /\ out.id = tree[2].value

\* the registry holds an entry for the pair
Registered(ents, kind, type) == kind \in DOMAIN ents /\ type \in DOMAIN ents[kind]

\* C4 as stated: naming a pair the registry has no entry for throws, and
\* the failing call creates no entry.
C4_UnregisteredPairThrows ==
    [][(out'.op \in EntityOps /\ ~Registered(entities, out'.kind, out'.type)) =>
          (out'.threw /\ entities' = entities)]_vars

\* C4: naming a pair throws exactly when its kind is not registered, and the
\* failing call changes nothing; under a registered kind a type without an entry
\* gets its entry by the call, which does not throw.
C4_UnregisteredKindThrows ==
    [][out'.op \in EntityOps =>
          /\ out'.threw <=> out'.kind \notin DOMAIN entities
          /\ out'.threw => UNCHANGED <<entities, tree, store, requests, hook, field>>
          /\ ~out'.threw =>
                /\ DOMAIN entities' = DOMAIN entities
                /\ Registered(entities', out'.kind, out'.type)
                /\ \A k \in DOMAIN entities :
                      /\ DOMAIN entities'[k] \subseteq
                            DOMAIN entities[k] \cup
                                (IF k = out'.kind THEN {out'.type} ELSE {})
                      /\ \A n \in DOMAIN entities[k] :
                            n \in DOMAIN entities'[k] /\ entities'[k][n] = entities[k][n]]_vars

\* a call that threw on an unknown kind, after a call created a type's entry
C4_Witness ==
    /\ out.threw
    /\ out.op = "useEntityBlockEditor"
    /\ out.kind \notin DOMAIN entities
    /\ Registered(entities, "postType", "post")
    /\ ~Registered(InitialEntities, "postType", "post")

\* the editEntityRecord call a setter of a field makes
FieldEdit(kind, type, id, prop, value) ==
    Request(kind, type, id, [f \in {prop} |-> value], "none")

\* C5: a render of useEntityBlockEditor sends the initialEdits it is given as
\* one editEntityRecord call with undoIgnore when it is the first render or
\* its effective id differs from the id of the render before, and sends nothing
\* when the id is the same.
C5_InitialEditsOncePerId ==
    [][(out'.op = "useEntityBlockEditor" /\ ~out'.threw) =>
          requests' = requests \o
              (IF out'.initialEdits /\ (~hook.mounted \/ hook.id # hook'.id)
               THEN << Request(hook'.kind, hook'.type, hook'.id,
                               DraftEdits.edits, "undoIgnore") >>
               ELSE <<>>)]_vars

\* a render with initialEdits of the id they were sent to, after they were
\* sent (the content it read is the content they set): nothing sent again
C5_Witness ==
    /\ out.op = "useEntityBlockEditor"
    /\ out.initialEdits
    /\ Len(requests) = 1
    /\ requests[1].options = "undoIgnore"
    /\ requests[1].id = hook.id
    /\ hook.memoDeps = DraftEdits.edits["content"]

\* C6 as stated: after onChange( doc ) the store has received one edit of
\* the structured field and one of the serialized field for the effective id,
\* and the serialized value the store computes from the edit is serialize( doc ).
C6_SerializedFromCommittedDocument ==
    (out.op = "onChange" /\ out.value.t = "array") =>
        LET n == Len(requests)
            applied == SerializeBlocksFnApply(
                           store[Key(hook.kind, hook.type, hook.id)].edited)
        IN  /\ n >= 2
            /\ requests[n - 1] = FieldEdit(hook.kind, hook.type, hook.id,
                                           hook.blocksProp, out.value)
            /\ requests[n] = FieldEdit(hook.kind, hook.type, hook.id,
                                       hook.contentProp, SerializeBlocksFn)
            /\ ~applied.threw
            /\ applied.value = Str(Serialize(out.value.v))

\* C7: onInput( doc ) sends exactly one edit, of the structured field alone,
\* and no record's serialized field changes by it.
C7_TransientEditsStructuredFieldOnly ==
    [][out'.op = "onInput" =>
          /\ requests' = Append(requests,
                                FieldEdit(hook.kind, hook.type, hook.id,
                                          hook.blocksProp, out'.value))
          /\ \A k \in Keys :
                store'[k].edited[hook.contentProp] = store[k].edited[hook.contentProp]]_vars

\* two onInput calls in a row on a loaded record, its content as fetched
C7_Witness ==
    /\ out.op = "onInput"
    /\ Len(requests) = 2
    /\ \A i \in 1..2 : DOMAIN requests[i].edits = {hook.blocksProp}
    /\ store[Key(hook.kind, hook.type, hook.id)].hasPersisted
    /\ store[Key(hook.kind, hook.type, hook.id)].edited[hook.contentProp] = Str(<<"<p>">>)
    /\ store[Key(hook.kind, hook.type, hook.id)].edited[hook.blocksProp] = out.value

\* the document the parse path gives for a serialized value: its parse when
\* it is text, the empty document otherwise
ParsedDocument(content) ==
    IF content.t = "string" THEN Arr(Parse(content.v)) ELSE Arr(<<>>)

\* the edited value of a field as a render of the hook reads it
EditedValue(st, h, prop) ==
    LET e == st[Key(h.kind, h.type, h.id)]
    IN  IF e.hasPersisted /\ e.hasEdited THEN e.edited[prop] ELSE Undefined

\* C8 as stated: the document is the structured field's edited value when
\* that is a node sequence, and in every other case the parse of the serialized
\* field's edited value.
C8_DocumentBySequenceShape ==
    [][(out'.op = "useEntityBlockEditor" /\ ~out'.threw) =>
          out'.value =
              IF EditedValue(store, hook', hook'.blocksProp).t = "array"
              THEN EditedValue(store, hook', hook'.blocksProp)
              ELSE ParsedDocument(EditedValue(store, hook', hook'.contentProp))]_vars

\* C8: the document is the structured field's edited value whenever that
\* value is not undefined, whatever its shape (null included); only when it is
\* undefined is the document the parse of the serialized field's edited value
\* as it is at that render, never the parse of an older value.
C8_DocumentUnlessUndefined ==
    [][(out'.op = "useEntityBlockEditor" /\ ~out'.threw) =>
          out'.value =
              IF EditedValue(store, hook', hook'.blocksProp) # Undefined
              THEN EditedValue(store, hook', hook'.blocksProp)
              ELSE ParsedDocument(EditedValue(store, hook', hook'.contentProp))]_vars

\* a render that returned the null the structured field was set to
C8_Witness ==
    /\ out.op = "useEntityBlockEditor"
    /\ ~out.threw
    /\ out.value = Null
    /\ store[Key(hook.kind, hook.type, hook.id)].edited[hook.blocksProp] = Null

\* C9: parse is called by a render of the hook only, at most once, and only
\* with a serialized value that differs from the one the render before read
\* (or on the first render), whatever else changed in between.
C9_ParseOncePerSerializedValue ==
    [][/\ out'.op # "useEntityBlockEditor" => out'.parsed = <<>>
       /\ (out'.op = "useEntityBlockEditor" /\ out'.parsed # <<>>) =>
             /\ Len(out'.parsed) = 1
             /\ ~hook.mounted \/ hook.memoDeps # out'.parsed[1]]_vars

\* a render under another id than the render before that read the same text
\* and returned the memoized document without a parse
C9_Witness ==
    /\ out.op = "useEntityBlockEditor"
    /\ ~out.threw
    /\ out.parsed = <<>>
    /\ hook.memoDeps = Str(<<"<p>">>)
    /\ out.value = Arr(<<"p">>)
    /\ hook.id = "i2"
    /\ \A k \in Keys : k[3] = "i1" => store[k].edited["blocks"] = Undefined
    /\ \A i \in DOMAIN requests : requests[i].id = "i1"
    /\ requests # <<>>

\* C10: the store receives the editEntityRecord calls in the order the
\* setters and handlers were called: each call appends its own request (for
\* onChange the structured edit, then the serialized one) after all earlier
\* ones, and nothing else adds, drops, merges or moves a request.
C10_RequestsInCallOrder ==
    [][requests' = requests \o
          (IF out'.op = "setValue"
           THEN << FieldEdit(field.kind, field.type, field.id, field.prop, out'.value) >>
           ELSE IF out'.op = "onInput"
           THEN << FieldEdit(hook.kind, hook.type, hook.id, hook.blocksProp, out'.value) >>
           ELSE IF out'.op = "onChange"
           THEN << FieldEdit(hook.kind, hook.type, hook.id, hook.blocksProp, out'.value),
                   FieldEdit(hook.kind, hook.type, hook.id, hook.contentProp,
                             SerializeBlocksFn) >>
           ELSE <<>>)]_vars

\* a setter call between two handler calls, the three requests in that order
C10_Witness ==
    /\ out.op = "onInput"
    /\ Len(requests) = 3
    /\ DOMAIN requests[1].edits = {hook.blocksProp}
    /\ DOMAIN requests[2].edits = {"title"}
    /\ requests[3] = requests[1]

\* C11: when the structured field has no edited value, a render of the hook
\* does not throw, and a serialized value that is absent, the empty text or a
\* function gives the empty document without a parse() call; a text that
\* parse() finds no node in gives the empty document too.
C11_EmptyDocumentWithoutParse ==
    [][(out'.op = "useEntityBlockEditor" /\ out'.kind \in DOMAIN entities
            /\ EditedValue(store, hook', hook'.blocksProp) = Undefined) =>
          LET content == EditedValue(store, hook', hook'.contentProp)
          IN  /\ ~out'.threw
              /\ (content \in {Undefined, Str(<<>>)} \/ content.t = "function") =>
                    (out'.value = Arr(<<>>) /\ out'.parsed = <<>>)
              /\ (content.t = "string" /\ Parse(content.v) = <<>>) =>
                    out'.value = Arr(<<>>)]_vars

\* a render that read a function as the content of a loaded record and
\* returned the empty document without a parse
C11_Witness ==
    /\ out.op = "useEntityBlockEditor"
    /\ ~out.threw
    /\ EditedValue(store, hook, hook.blocksProp) = Undefined
    /\ EditedValue(store, hook, hook.contentProp) = SerializeBlocksFn
    /\ hook.memoDeps = SerializeBlocksFn
    /\ out.value = Arr(<<>>)
    /\ out.parsed = <<>>

\* C12 as stated: onChange queues a function, not a text, as the edit of the
\* serialized field, and whatever blocksProp names, the function applied to
\* the edited record the store then holds returns serialize of that record's
\* field named blocksProp.
C12_DeferredSerializeOfNamedField ==
    (out.op = "onChange" /\ hook.mounted) =>
        LET rec == store[Key(hook.kind, hook.type, hook.id)].edited
            queued == requests[Len(requests)].edits[hook.contentProp]
        IN  /\ queued.t = "function"
            /\ rec[hook.contentProp] = queued
            /\ rec[hook.blocksProp].t = "array" =>
                  SerializeBlocksFnApply(rec) =
                      [threw |-> FALSE,
                       value |-> Str(Serialize(rec[hook.blocksProp].v))]

\* C13: one onChange( doc ) call sends the edit of the structured field and
\* then, as the next call, the edit of the serialized field, both merged by the
\* store in that order; when the store applies the function as the step that
\* follows, the structured field holds doc.
C13_StructuredEditBeforeSerializedEdit ==
    [][/\ out'.op = "onChange" =>
            LET n == Len(requests')
                key == Key(hook.kind, hook.type, hook.id)
            IN  /\ n = Len(requests) + 2
                /\ SubSeq(requests', 1, n - 2) = requests
                /\ requests'[n - 1] = FieldEdit(hook.kind, hook.type, hook.id,
                                                hook.blocksProp, out'.value)
                /\ DOMAIN requests'[n].edits = {hook.contentProp}
                /\ requests'[n].edits[hook.contentProp].t = "function"
                /\ store' = CommitEdit(CommitEdit(store, requests'[n - 1]), requests'[n])
                /\ store'[key].edited[hook.blocksProp] = out'.value
       /\ (out.op = "onChange" /\ out'.op = "apply"
                /\ out'.kind = hook.kind /\ out'.type = hook.type) =>
            \A id \in Ids :
                store'[Key(hook.kind, hook.type, id)] # store[Key(hook.kind, hook.type, id)] =>
                    store[Key(hook.kind, hook.type, id)].edited[hook.blocksProp] = out.value]_vars

\* the store applied the function right after an onChange( doc ) that sent
\* the structured edit and then the serialized edit
C13_Witness ==
    LET n == Len(requests)
        rec == store[Key(hook.kind, hook.type, hook.id)].edited
    IN  /\ out.op = "apply"
        /\ hook.mounted
        /\ n >= 2
        /\ DOMAIN requests[n - 1].edits = {hook.blocksProp}
        /\ DOMAIN requests[n].edits = {hook.contentProp}
        /\ requests[n].edits[hook.contentProp] = SerializeBlocksFn
        /\ rec[hook.blocksProp] = requests[n - 1].edits[hook.blocksProp]
        /\ rec[hook.blocksProp].t = "array"
        /\ rec[hook.contentProp] = Str(Serialize(rec[hook.blocksProp].v))

\* C14: a call of useEntityId, of useEntityProp, or of useEntityBlockEditor
\* without initialEdits sends no editEntityRecord call and changes no record
\* of the store; the one thing it asks of the store is the fetch of the record
\* it reads, and only when that record is not loaded.
C14_AccessorsSendNoEdit ==
    [][(\/ out'.op \in {"useEntityId", "useEntityProp"}
        \/ out'.op = "useEntityBlockEditor" /\ ~out'.initialEdits) =>
          /\ requests' = requests
          /\ store' = store
          /\ out'.fetch \subseteq
                {k \in {Key(out'.kind, out'.type, out'.id)} \cap Keys :
                    ~store[k].hasPersisted}
          /\ out'.op = "useEntityId" => out'.fetch = {}]_vars

\* a render of the hook without initialEdits that asked for the fetch of its
\* record and left the request log empty
C14_Witness ==
    /\ out.op = "useEntityBlockEditor"
    /\ ~out.threw
    /\ ~out.initialEdits
    /\ hook.mounted
    /\ out.fetch = {Key(hook.kind, hook.type, hook.id)}
    /\ requests = <<>>
    /\ \A k \in Keys : ~store[k].hasEdited

\* C15: no step removes a kind or a (kind, type) entry of the registry or
\* gives an entry another context, and a lookup of a pair that has an entry
\* leaves the registry as it is and returns the context the entry was made with.
C15_RegistryAppendOnly ==
    [][/\ \A kind \in DOMAIN entities :
            /\ kind \in DOMAIN entities'
            /\ \A type \in DOMAIN entities[kind] :
                  /\ Registered(entities', kind, type)
                  /\ entities'[kind][type] = entities[kind][type]
       /\ (out'.op \in EntityOps /\ Registered(entities, out'.kind, out'.type)) =>
            /\ entities' = entities
            /\ GetEntityContext(entities', out'.kind, out'.type)
                  = entities[out'.kind][out'.type]
       /\ (out'.op \in EntityOps /\ ~out'.threw) =>
            /\ Registered(entities', out'.kind, out'.type)
            /\ \A kind \in DOMAIN entities' : \A type \in DOMAIN entities'[kind] :
                  Registered(entities, kind, type)
                      \/ (kind = out'.kind /\ type = out'.type)]_vars

\* two types of one kind got their entries by lookups, and a later lookup by
\* useEntityId read the id of the provider that made the first entry
C15_Witness ==
    /\ out.op = "useEntityId"
    /\ out.kind = "postType" /\ out.type = "post"
    /\ Registered(entities, "postType", "post")
    /\ Registered(entities, "postType", "page")
    /\ entities["postType"]["post"] < entities["postType"]["page"]
    /\ out.id \in Ids
    /\ \E i \in DOMAIN tree :
          /\ tree[i].kind = "postType" /\ tree[i].type = "post"
          /\ tree[i].context = entities["postType"]["post"]
          /\ tree[i].value = out.id

\* C16: every editEntityRecord call that a render of the hook, its onInput
\* or its onChange sends names the kind, the type and the effective id of that
\* render; once a render has another id, the calls name the new id only.
C16_EditsAddressRenderedRecord ==
    [][(out'.op \in {"useEntityBlockEditor", "onInput", "onChange"} /\ ~out'.threw) =>
          /\ Len(requests') >= Len(requests)
          /\ SubSeq(requests', 1, Len(requests)) = requests
          /\ \A i \in (Len(requests) + 1) .. Len(requests') :
                /\ requests'[i].kind = hook'.kind
                /\ requests'[i].type = hook'.type
                /\ requests'[i].id = hook'.id
                /\ requests'[i].id = out'.id
          /\ out'.op # "useEntityBlockEditor" => hook' = hook]_vars

\* the hook sent its initialEdits for one id, was rendered with another id
\* and sent them for that one, and its onInput then named the second id
C16_Witness ==
    /\ out.op = "onInput"
    /\ hook.mounted
    /\ Len(requests) = 3
    /\ requests[1].options = "undoIgnore"
    /\ requests[2].options = "undoIgnore"
    /\ requests[1].id # hook.id
    /\ \A i \in 2 .. 3 : requests[i].id = hook.id

\* C17: a render of the hook whose effective id is the id of the render
\* before sends no editEntityRecord call and changes no record, whether
\* initialEdits is given for the first time, given again or given no longer;
\* a call with undoIgnore is sent only by a first render or a render with
\* another id, and only with the initialEdits of that very render.
C17_SeedDecidedAtIdChangeOnly ==
    [][(out'.op = "useEntityBlockEditor" /\ ~out'.threw) =>
          /\ (hook.mounted /\ hook.effectDeps = out'.id) =>
                (requests' = requests /\ store' = store)
          /\ requests' # requests =>
                /\ ~hook.mounted \/ hook.effectDeps # out'.id
                /\ out'.initialEdits
                /\ requests' = Append(requests,
                                      Request(out'.kind, out'.type, out'.id,
                                              DraftEdits.edits, "undoIgnore"))]_vars

\* the hook was first rendered without initialEdits, a later render with the
\* same id was given them, and the store has been sent nothing
C17_Witness ==
    /\ out.op = "useEntityBlockEditor"
    /\ ~out.threw
    /\ out.initialEdits
    /\ hook.mounted
    /\ hook.effectDeps = out.id
    /\ requests = <<>>
    /\ \A k \in Keys : ~store[k].hasEdited

=============================================================================
